---- MODULE Spec2Model ----
(***************************************************************************)
(* Model of generate_downtime_events.py: the script seeds two generators,  *)
(* runs a loop that appends one downtime event per iteration to `rows`,    *)
(* and writes the rows to downtime_events.csv.                             *)
(*                                                                         *)
(* Numbers.  Python floats are modelled as exact fixed-point integers in   *)
(* units of 1/Scale: a duration of d minutes is the integer d * Scale      *)
(* (Scale = 60000, so one unit is one millisecond), and a number of pieces *)
(* p is p * Scale.  The raw draws are multiples of 0.01 minute, for which  *)
(* the products by 1.1 and 1.05 and the division by 3 are exact.           *)
(* downtime_minutes, a float rounded to one decimal, is stored as its      *)
(* number of tenths of a minute.                                           *)
(*                                                                         *)
(* Dates.  A datetime is the record of its fields, the calendar date being *)
(* counted in days from 2024-01-01 (day 0); 2024-06-30 is day 181.         *)
(* TLC's integers have 32 bits: a datetime is never turned into a single    *)
(* count of milliseconds, only its time of day is.                         *)
(***************************************************************************)
EXTENDS Integers, Sequences, FiniteSets, TLC

\* Bounds of the model: rows generated per run (8000 in the source) and
\* number of times the script is run.
NRowsBound == 2
MaxRuns == 2

Scale == 60 * 1000
TicksPerTenth == Scale \div 10
TicksPerDay == 24 * 60 * Scale

Max(a, b) == IF a >= b THEN a ELSE b
Min(a, b) == IF a <= b THEN a ELSE b

----------------------------------------------------------------------------
\* datetime, timedelta

DateTime(d, h, m, s, ms) ==
    [day |-> d, hour |-> h, minute |-> m, second |-> s, millisecond |-> ms]

\* Milliseconds from midnight to the time of day of dt.
TimeOfDay(dt) ==
    ((dt.hour * 60 + dt.minute) * 60 + dt.second) * 1000 + dt.millisecond

\* The datetime t milliseconds after midnight of day d (t >= 0).
FromTicks(d, t) ==
    DateTime(d + (t \div TicksPerDay), (t \div (60 * Scale)) % 24,
             (t \div Scale) % 60, (t \div 1000) % 60, t % 1000)

\* dt + timedelta(days=n)
AddDays(dt, n) == FromTicks(dt.day + n, TimeOfDay(dt))

\* dt + timedelta(minutes=duration), duration in 1/Scale minutes
AddMinutes(dt, minutes) == FromTicks(dt.day, TimeOfDay(dt) + minutes)

\* (a - b).days
DaysBetween(a, b) ==
    IF TimeOfDay(a) >= TimeOfDay(b) THEN a.day - b.day ELSE a.day - b.day - 1

\* dt.isoformat(): the fields of "YYYY-MM-DDTHH:MM:SS[.ffffff]" in order.
isoformat(dt) == <<dt.day, dt.hour, dt.minute, dt.second, dt.millisecond>>

WeekdayNames ==
    <<"Monday", "Tuesday", "Wednesday", "Thursday", "Friday", "Saturday",
      "Sunday">>

\* dt.strftime("%A"); 2024-01-01 is a Monday.
strftime_A(dt) == WeekdayNames[(dt.day % 7) + 1]

----------------------------------------------------------------------------
\* Configuration

n_rows == NRowsBound

start_date == DateTime(0, 0, 0, 0, 0)
end_date == DateTime(181, 0, 0, 0, 0)
date_range_days == DaysBetween(end_date, start_date)

lines == <<"BodyShop", "PaintShop", "FinalAssembly">>

SourceStations ==
    [BodyShop |-> <<"BS_Weld_01", "BS_Weld_02", "BS_Trans_01", "BS_QC_01">>,
     PaintShop |-> <<"PS_Prep_01", "PS_Paint_01", "PS_Oven_01", "PS_QC_01">>,
     FinalAssembly |->
        <<"FA_Conv_01", "FA_Station_01", "FA_Station_02", "FA_QC_01">>]

\* f"R{str(i).zfill(3)}": the letter R and the three digits of i
robots == [n \in 1..30 |-> <<"R", n \div 100, (n \div 10) % 10, n % 10>>]

failure_codes == <<"E01", "E02", "E03", "E04", "E05", "E06">>

failure_categories ==
    [E01 |-> "mechanical", E02 |-> "electrical", E03 |-> "programming",
     E04 |-> "sensor", E05 |-> "material_supply", E06 |-> "other"]

\* weights=[0.25, 0.20, 0.20, 0.15, 0.15, 0.05], in hundredths
weights == <<25, 20, 20, 15, 15, 5>>

\* Column order of the rows, the header line of the CSV file
Header ==
    <<"event_id", "timestamp_start", "timestamp_end", "line_id",
      "station_id", "robot_id", "failure_code", "failure_category",
      "downtime_minutes", "shift", "pieces_lost", "day_of_week">>

----------------------------------------------------------------------------
\* Sampling helpers.  A draw of the generator is an input of the iteration.

\* random.choice(seq) = seq[randbelow(len(seq))]; k is the generator's
\* integer output.  Only applied to a non-empty seq.
choice(seq, k) == seq[(k % Len(seq)) + 1]

RECURSIVE CumWeight(_)
CumWeight(k) == IF k = 0 THEN 0 ELSE CumWeight(k - 1) + weights[k]

\* random.choices(failure_codes, weights)[0]: u is random() * total in
\* hundredths; the result is the first code whose cumulative weight
\* exceeds u.
choices(u) ==
    failure_codes[CHOOSE k \in 1..Len(failure_codes) :
                     /\ u < CumWeight(k)
                     /\ \A j \in 1..(k - 1) : u >= CumWeight(j)]

\* day_offset, hour and minute are the three randint draws.
random_timestamp_late(day_offset, hour, minute) ==
    [AddDays(start_date, day_offset + 1) EXCEPT
        !.hour = hour, !.minute = minute, !.second = 0, !.millisecond = 0]

random_timestamp(day_offset, hour, minute) ==
    [AddDays(start_date, day_offset) EXCEPT
        !.hour = hour, !.minute = minute, !.second = 0, !.millisecond = 0]

get_shift_open(hour) ==
    IF 6 < hour /\ hour < 14 THEN "morning"
    ELSE IF 14 < hour /\ hour < 22 THEN "afternoon"
    ELSE "night"

get_shift(hour) ==
    IF 6 <= hour /\ hour < 14 THEN "morning"
    ELSE IF 14 <= hour /\ hour < 22 THEN "afternoon"
    ELSE "night"

\* event_id = i + 1
EventIdFromZero(ix) == ix

EventId(ix) == ix + 1

\* duration = max(1.0, min(240.0, raw_duration))
ClampNoFloor(raw) == Min(240 * Scale, raw)

ClampNoCeiling(raw) == Max(1 * Scale, raw)

Clamp(raw) == Max(1 * Scale, Min(240 * Scale, raw))

\* the list random.choice draws the station from: stations_per_line[line]
StationsOfFirstLine(map, line) == map[lines[1]]

StationsOf(map, line) == map[line]

\* np.random.normal(loc=duration / 3, scale=2): noise is 2 * (standard
\* normal draw)
normal(duration, noise) == (duration \div 3) + noise

\* int(max(0.0, raw_pieces)): int() truncates toward zero
PiecesLostUnclamped(raw) ==
    IF raw >= 0 THEN raw \div Scale ELSE -((-raw) \div Scale)

PiecesLost(raw) == Max(0, raw) \div Scale

\* if shift == "night": duration *= 1.1
\* if line == "BodyShop": duration *= 1.05
ApplyBiasElif(duration, shift, line) ==
    IF shift = "night" THEN (duration * 11) \div 10
    ELSE IF line = "BodyShop" THEN (duration * 21) \div 20
    ELSE duration

ApplyBias(duration, shift, line) ==
    LET night == IF shift = "night" THEN (duration * 11) \div 10
                 ELSE duration
    IN  IF line = "BodyShop" THEN (night * 21) \div 20 ELSE night

\* round(duration, 1), as a number of tenths.  Python rounds the double
\* correctly: a value halfway between two tenths that a double holds
\* exactly (x.25, x.75) goes to the even tenth; the other halfway values
\* are not doubles, and the one the loop produces, 1.0 * 1.05, is the
\* double just above 1.05 and goes up.
RoundTo1(duration) ==
    LET q == duration \div TicksPerTenth
        r == duration % TicksPerTenth
    IN  IF 2 * r < TicksPerTenth THEN q
        ELSE IF 2 * r > TicksPerTenth THEN q + 1
        ELSE IF (2 * q + 1) % 5 = 0 /\ q % 2 = 0 THEN q
        ELSE q + 1

\* np.random.seed(42) / random.seed(42): the generator is put at the start
\* of the stream of seed 42, whatever its state was
seed_skipped(state) == state

seed(state) == 0

----------------------------------------------------------------------------
\* Draws.  One iteration consumes, in this order, from `random`: day_offset,
\* hour, minute (randint), then the line, station and robot indices (choice)
\* and the weighted failure-code draw; from numpy: raw_duration (exponential
\* with scale 25) and the noise of the normal draw.

Draw(day, h, m, rd, lk, sk, rk, cu, nz) ==
    [day_offset |-> day, hour |-> h, minute |-> m, raw_duration |-> rd,
     line_k |-> lk, station_k |-> sk, robot_k |-> rk, code_u |-> cu,
     noise |-> nz]

\* 0.4, 12.34 and 300 minutes
DurationDraws == {24000, 740400, 18000000}

\* -10, 0 and +0.6 pieces
NoiseDraws == {-600000, 0, 36000}

\* The corners of the timestamp range
TimeCases ==
    {Draw(d, h, m, 740400, 1, 0, 16, 50, 36000) :
        d \in {0, date_range_days}, h \in {0, 23}, m \in {0, 59}}

\* Every hour of the day
HourCases == {Draw(90, h, 30, 740400, 1, 0, 16, 50, 36000) : h \in 0..23}

\* Every duration under every combination of the two biases
DurationCases ==
    {Draw(90, h, 30, rd, lk, 0, 16, 50, 36000) :
        h \in {3, 10}, lk \in {0, 1}, rd \in DurationDraws}

\* Every line with its first and last station, robot and failure code
PlaceCases ==
    {Draw(90, 10, 30, 740400, lk, sk, 16, 50, 36000) :
        lk \in 0..2, sk \in {0, 3}}
    \cup {Draw(90, 10, 30, 740400, 1, 0, rk, cu, 36000) :
        rk \in {0, 29}, cu \in {0, 24, 99}}

\* Every duration with every noise, with and without the night bias
PiecesCases ==
    {Draw(90, h, 30, rd, 1, 0, 16, 50, nz) :
        h \in {3, 10}, rd \in DurationDraws, nz \in NoiseDraws}

DrawCases ==
    TimeCases \cup HourCases \cup DurationCases \cup PlaceCases \cup PiecesCases

\* Station maps other than the source's: a line with no station
StationMaps ==
    {SourceStations, [SourceStations EXCEPT !.PaintShop = <<>>]}

\* What the two generators yield per iteration when the streams are fixed
\* by the seed
PyBlocks ==
    {[day_offset |-> 0, hour |-> 3, minute |-> 0, line_k |-> 0,
      station_k |-> 0, robot_k |-> 0, code_u |-> 0],
     [day_offset |-> date_range_days, hour |-> 10, minute |-> 59,
      line_k |-> 1, station_k |-> 3, robot_k |-> 29, code_u |-> 99]}

NpBlocks ==
    {[raw_duration |-> 24000, noise |-> -600000],
     [raw_duration |-> 740400, noise |-> 36000]}

\* Entries of each stream that are modelled: a run reads the first n_rows,
\* a generator that is not reseeded goes on with the next n_rows
StreamLen == 2 * n_rows

----------------------------------------------------------------------------
\* State

VARIABLES
    pc,                 \* "loop", "done" (file written) or "failed"
    error,              \* the exception that ended the script, "" if none
    stations_per_line,  \* the station map
    rows,               \* the list of generated rows
    i,                  \* the next index of range(n_rows)
    event_id,           \* the loop's globals, as last assigned
    raw_duration,
    duration,
    raw_pieces,
    csv,                \* lines of downtime_events.csv, <<>> if not written
    runs,               \* completed runs of the script
    py_stream,          \* what random yields after seed(42), per iteration
    np_stream,          \* what numpy.random yields after seed(42)
    py_pos,             \* iterations drawn from random since its seeding
    np_pos              \* iterations drawn from numpy.random

vars ==
    <<pc, error, stations_per_line, rows, i, event_id, raw_duration,
      duration, raw_pieces, csv, runs, py_stream, np_stream, py_pos, np_pos>>

\* The script up to the loop: seeds, configuration, rows = []
ScriptStart ==
    /\ pc = "loop"
    /\ error = ""
    /\ rows = <<>>
    /\ i = 0
    /\ event_id = 0
    /\ raw_duration = 0
    /\ duration = 0
    /\ raw_pieces = 0
    /\ py_pos = seed(0)
    /\ np_pos = seed(0)

Init ==
    /\ ScriptStart
    /\ stations_per_line = SourceStations
    /\ csv = <<>>
    /\ runs = 0
    /\ py_stream = <<>>
    /\ np_stream = <<>>

\* The same script with a station map chosen by the caller
InitConfig ==
    /\ ScriptStart
    /\ stations_per_line \in StationMaps
    /\ csv = <<>>
    /\ runs = 0
    /\ py_stream = <<>>
    /\ np_stream = <<>>

\* The same script with the streams of seed 42 made explicit
InitSeeded ==
    /\ ScriptStart
    /\ stations_per_line = SourceStations
    /\ csv = <<>>
    /\ runs = 0
    /\ py_stream \in [1..StreamLen -> PyBlocks]
    /\ np_stream \in [1..StreamLen -> NpBlocks]

\* One iteration of the loop with the draws d
Iteration(d) ==
    LET this_id == EventId(i)
        ts_start == random_timestamp(d.day_offset, d.hour, d.minute)
        clamped == Clamp(d.raw_duration)
        ts_end == AddMinutes(ts_start, clamped)
        line == choice(lines, d.line_k)
        pool == StationsOf(stations_per_line, line)
    IN  /\ i' = i + 1
        /\ event_id' = this_id
        /\ raw_duration' = d.raw_duration
        /\ IF pool = <<>>
           THEN \* random.choice raises IndexError on an empty list
                /\ pc' = "failed"
                /\ error' = "IndexError"
                /\ duration' = clamped
                /\ UNCHANGED <<rows, raw_pieces>>
           ELSE LET station == choice(pool, d.station_k)
                    robot_id == choice(robots, d.robot_k)
                    f_code == choices(d.code_u)
                    f_cat == failure_categories[f_code]
                    shift == get_shift(ts_start.hour)
                    pieces == normal(clamped, d.noise)
                    pieces_lost == PiecesLost(pieces)
                    biased == ApplyBias(clamped, shift, line)
                    row ==
                        [event_id |-> this_id,
                         timestamp_start |-> isoformat(ts_start),
                         timestamp_end |-> isoformat(ts_end),
                         line_id |-> line,
                         station_id |-> station,
                         robot_id |-> robot_id,
                         failure_code |-> f_code,
                         failure_category |-> f_cat,
                         downtime_minutes |-> RoundTo1(biased),
                         shift |-> shift,
                         pieces_lost |-> pieces_lost,
                         day_of_week |-> strftime_A(ts_start)]
                IN  /\ rows' = Append(rows, row)
                    /\ raw_pieces' = pieces
                    /\ duration' = biased
                    /\ UNCHANGED <<pc, error>>
        /\ UNCHANGED <<stations_per_line, csv, runs, py_stream, np_stream>>

\* for i in range(n_rows): ..., the draws being any the generators can give
Generate ==
    /\ pc = "loop"
    /\ i < n_rows
    /\ \E d \in DrawCases : Iteration(d)
    /\ UNCHANGED <<py_pos, np_pos>>

\* The same iteration, the draws being the next of each seeded stream
GenerateSeeded ==
    /\ pc = "loop"
    /\ i < n_rows
    /\ LET p == py_stream[py_pos + 1]
           n == np_stream[np_pos + 1]
       IN  Iteration(Draw(p.day_offset, p.hour, p.minute, n.raw_duration,
                          p.line_k, p.station_k, p.robot_k, p.code_u,
                          n.noise))
    /\ py_pos' = py_pos + 1
    /\ np_pos' = np_pos + 1

\* df = pd.DataFrame(rows); df.to_csv(output_path, index=False)
WriteCsv ==
    /\ pc = "loop"
    /\ i = n_rows
    /\ csv' = <<Header>> \o rows
    /\ pc' = "done"
    /\ runs' = runs + 1
    /\ UNCHANGED <<error, stations_per_line, rows, i, event_id, raw_duration,
                   duration, raw_pieces, py_stream, np_stream, py_pos,
                   np_pos>>

\* The script is run again: both generators are seeded anew, the file of
\* the previous run is still there
Rerun ==
    /\ pc = "done"
    /\ runs < MaxRuns
    /\ pc' = "loop"
    /\ rows' = <<>>
    /\ i' = 0
    /\ event_id' = 0
    /\ raw_duration' = 0
    /\ duration' = 0
    /\ raw_pieces' = 0
    /\ py_pos' = seed(py_pos)
    /\ np_pos' = seed(np_pos)
    /\ UNCHANGED <<error, stations_per_line, csv, runs, py_stream, np_stream>>

Next == Generate \/ WriteCsv

Spec == Init /\ [][Next]_vars

SpecConfig == InitConfig /\ [][Next]_vars

NextSeeded == GenerateSeeded \/ WriteCsv \/ Rerun

SpecSeeded == InitSeeded /\ [][NextSeeded]_vars

----------------------------------------------------------------------------
\* Reading the rows back

\* datetime.fromisoformat(text)
fromisoformat(iso) == DateTime(iso[1], iso[2], iso[3], iso[4], iso[5])

RowStart(row) == fromisoformat(row.timestamp_start)
RowEnd(row) == fromisoformat(row.timestamp_end)

\* timestamp_end - timestamp_start of a row, in 1/Scale minutes
Elapsed(row) ==
    (RowEnd(row).day - RowStart(row).day) * TicksPerDay
        + TimeOfDay(RowEnd(row)) - TimeOfDay(RowStart(row))

\* a <= b for datetimes
NotAfter(a, b) ==
    \/ a.day < b.day
    \/ a.day = b.day /\ TimeOfDay(a) <= TimeOfDay(b)

RowIndices == 1..Len(rows)

LastRow == rows[Len(rows)]

\* The loop's globals and the last row come from the same iteration
RowAppended == Len(rows) > 0 /\ pc # "failed"

Biased(row) == row.shift = "night" \/ row.line_id = "BodyShop"

----------------------------------------------------------------------------
\* C1: the rows generated so far carry the ids 1, 2, ..., in order, one per
\* iteration; when generation has finished there are exactly n_rows of them,
\* and the file holds a header line and n_rows data lines.
EventIdsSequential ==
    /\ Len(rows) = i
    /\ Len(rows) <= n_rows
    /\ \A k \in RowIndices : rows[k].event_id = k
    /\ (pc = "loop" /\ i = n_rows) => Len(rows) = n_rows
    /\ pc = "done" => Len(rows) = n_rows /\ Len(csv) = n_rows + 1

EventIdsSequentialWitness ==
    /\ pc = "done"
    /\ Len(rows) = n_rows
    /\ n_rows >= 2
    /\ rows[1].event_id = 1
    /\ rows[n_rows].event_id = n_rows

\* C2 as stated: timestamp_end = timestamp_start + downtime_minutes in every
\* row.
EndIsStartPlusDowntime ==
    \A k \in RowIndices :
        Elapsed(rows[k]) = rows[k].downtime_minutes * TicksPerTenth

\* C2 amended: timestamp_end - timestamp_start is the duration before the
\* bias; downtime_minutes is that duration times 1.1 for a night row and
\* times 1.05 for a BodyShop row, rounded to one decimal.  In a night or
\* BodyShop row it is strictly more than timestamp_end - timestamp_start,
\* in the other rows it is within 0.05 minute of it.
DowntimeIsBiasedElapsed ==
    \A k \in RowIndices :
        LET row == rows[k]
            night == IF row.shift = "night" THEN 11 ELSE 10
            body == IF row.line_id = "BodyShop" THEN 21 ELSE 20
            stored == row.downtime_minutes * TicksPerTenth
        IN  /\ row.downtime_minutes
                 = RoundTo1((((Elapsed(row) * night) \div 10) * body) \div 20)
            /\ Biased(row) => stored > Elapsed(row)
            /\ ~Biased(row) =>
                  /\ 2 * (stored - Elapsed(row)) <= TicksPerTenth
                  /\ 2 * (Elapsed(row) - stored) <= TicksPerTenth

DowntimeIsBiasedElapsedWitness ==
    \E k \in RowIndices :
        /\ rows[k].shift = "night"
        /\ rows[k].line_id = "BodyShop"
        /\ Elapsed(rows[k]) = 740400
        /\ rows[k].downtime_minutes = 143

\* C3 as stated: 1.0 <= downtime_minutes <= 264 in every row.
DowntimeWithin1And264 ==
    \A k \in RowIndices :
        /\ rows[k].downtime_minutes >= 10
        /\ rows[k].downtime_minutes <= 2640

\* C3 amended: 1.0 <= downtime_minutes <= 277.2 in every row (240 minutes
\* times 1.1 times 1.05).
DowntimeWithin1And277 ==
    \A k \in RowIndices :
        /\ rows[k].downtime_minutes >= 10
        /\ rows[k].downtime_minutes <= 2772

DowntimeWithin1And277Witness ==
    /\ \E k \in RowIndices : rows[k].downtime_minutes = 2772
    /\ \E k \in RowIndices : rows[k].downtime_minutes = 10

\* C4: a station map with an empty station list makes the script fail with
\* a ConfigurationError before any event is generated.
EmptyStationListFailsFast ==
    (\E n \in 1..Len(lines) : stations_per_line[lines[n]] = <<>>) =>
        /\ rows = <<>>
        /\ i = 0
        /\ pc # "done"
        /\ error \in {"", "ConfigurationError"}

\* C5: a run of the script reproduces, row by row and in order, the rows of
\* the file the previous run wrote.
RerunReproducesRows ==
    runs >= 1 =>
        /\ Len(csv) = n_rows + 1
        /\ \A k \in RowIndices : rows[k] = csv[k + 1]
        /\ pc = "done" => csv = <<Header>> \o rows

RerunReproducesRowsWitness ==
    /\ runs = 1
    /\ pc = "loop"
    /\ i = n_rows
    /\ Len(rows) = n_rows
    /\ rows[1].line_id # rows[2].line_id
    /\ rows[1].downtime_minutes # rows[2].downtime_minutes

\* C6 as stated: start_date <= timestamp_start <= end_date in every row,
\* with seconds and sub-seconds 0.
StartWithinRange ==
    \A k \in RowIndices :
        /\ NotAfter(start_date, RowStart(rows[k]))
        /\ NotAfter(RowStart(rows[k]), end_date)
        /\ RowStart(rows[k]).second = 0
        /\ RowStart(rows[k]).millisecond = 0

\* C6 amended: start_date <= timestamp_start <= end_date + 23 h 59 min in
\* every row (the date of timestamp_start is a day from the start date to
\* the end date, both included), with seconds and sub-seconds 0.
StartWithinRangeDays ==
    \A k \in RowIndices :
        /\ NotAfter(start_date, RowStart(rows[k]))
        /\ NotAfter(RowStart(rows[k]),
                    [end_date EXCEPT !.hour = 23, !.minute = 59])
        /\ RowStart(rows[k]).second = 0
        /\ RowStart(rows[k]).millisecond = 0

StartWithinRangeDaysWitness ==
    /\ \E k \in RowIndices :
          RowStart(rows[k]) = [end_date EXCEPT !.hour = 23, !.minute = 59]
    /\ \E k \in RowIndices : RowStart(rows[k]) = start_date

\* raw rounded to the nearest integer (raw in 1/Scale, halves away from 0)
RoundNearest(raw) ==
    IF raw >= 0 THEN (2 * raw + Scale) \div (2 * Scale)
    ELSE -((2 * (-raw) + Scale) \div (2 * Scale))

\* C7 as stated: pieces_lost = max(0, raw_pieces rounded to the nearest
\* integer).
PiecesLostIsRounded ==
    RowAppended => LastRow.pieces_lost = Max(0, RoundNearest(raw_pieces))

\* C7 amended: pieces_lost is max(0, raw_pieces) with its fraction dropped,
\* an integer >= 0; the mean of raw_pieces is a third of the clamped
\* duration, before the bias.
PiecesLostIsTruncated ==
    /\ \A k \in RowIndices : rows[k].pieces_lost >= 0
    /\ RowAppended =>
          /\ raw_pieces <= 0 => LastRow.pieces_lost = 0
          /\ raw_pieces > 0 =>
                /\ LastRow.pieces_lost * Scale <= raw_pieces
                /\ raw_pieces < (LastRow.pieces_lost + 1) * Scale
          /\ \E nz \in NoiseDraws :
                raw_pieces = (Clamp(raw_duration) \div 3) + nz

PiecesLostIsTruncatedWitness ==
    /\ RowAppended
    /\ LastRow.shift = "night"
    /\ raw_pieces = 282800
    /\ LastRow.pieces_lost = 4
    /\ \E k \in RowIndices : rows[k].pieces_lost = 0 /\ rows[k].shift = "night"

\* C8: the station of a row is one of the stations of the row's line, and
\* of no other line.
StationBelongsToLine ==
    \A k \in RowIndices :
        \A n \in 1..Len(lines) :
            (\E j \in 1..Len(stations_per_line[lines[n]]) :
                stations_per_line[lines[n]][j] = rows[k].station_id)
            <=> lines[n] = rows[k].line_id

StationBelongsToLineWitness ==
    /\ \E k \in RowIndices :
          rows[k].line_id = "FinalAssembly" /\ rows[k].station_id = "FA_QC_01"
    /\ \E k \in RowIndices :
          rows[k].line_id = "PaintShop" /\ rows[k].station_id = "PS_Prep_01"

\* The hour ranges of the three shifts
ShiftHours ==
    [morning |-> 6..13, afternoon |-> 14..21, night |-> (22..23) \cup (0..5)]

\* C9: the shift of a row is morning, afternoon or night, the one whose hour
\* range holds the hour of the row's timestamp_start; every hour 0..23 is in
\* exactly one of the three ranges.
ShiftMatchesHour ==
    /\ \A k \in RowIndices :
          /\ rows[k].shift \in DOMAIN ShiftHours
          /\ RowStart(rows[k]).hour \in ShiftHours[rows[k].shift]
    /\ \A h \in 0..23 :
          Cardinality({name \in DOMAIN ShiftHours : h \in ShiftHours[name]})
              = 1

ShiftMatchesHourWitness ==
    /\ Len(rows) >= 2
    /\ \E k \in RowIndices :
          RowStart(rows[k]).hour = 6 /\ rows[k].shift = "morning"
    /\ \E k \in RowIndices :
          RowStart(rows[k]).hour = 22 /\ rows[k].shift = "night"

\* C10: timestamp_end is later than timestamp_start in every row, by the
\* clamped duration before the bias, from 1 to 240 minutes, whatever the
\* shift and the line.
EndAfterStartByClamped ==
    /\ \A k \in RowIndices :
          /\ ~NotAfter(RowEnd(rows[k]), RowStart(rows[k]))
          /\ Elapsed(rows[k]) >= 1 * Scale
          /\ Elapsed(rows[k]) <= 240 * Scale
    /\ RowAppended =>
          Elapsed(LastRow) =
              IF raw_duration < 1 * Scale THEN 1 * Scale
              ELSE IF raw_duration > 240 * Scale THEN 240 * Scale
              ELSE raw_duration

EndAfterStartByClampedWitness ==
    /\ RowAppended
    /\ LastRow.shift = "night"
    /\ LastRow.line_id = "BodyShop"
    /\ raw_duration > 240 * Scale
    /\ Elapsed(LastRow) = 240 * Scale
    /\ duration > 240 * Scale
    /\ \E k \in RowIndices : Elapsed(rows[k]) = 1 * Scale

====
